---------------------------- MODULE Spec2Model ----------------------------
(***************************************************************************)
(* A model of HotSpot's CompilerOracle (compilerOracle.cpp): the line      *)
(* scanner of -XX:CompileCommand, the legacy -XX:CompileOnly list parser,  *)
(* the chain of TypedMethodOptionMatcher records and the queries over it.  *)
(*                                                                         *)
(* Text is modelled character by character: a C string is a sequence of    *)
(* one-character strings, a buffer is such a sequence with NUL entries,    *)
(* and a char* is an index into the buffer.  sscanf's scansets are sets    *)
(* of characters and its conversions are computed as libc computes them.   *)
(***************************************************************************)
EXTENDS Integers, Sequences, FiniteSets, TLC

(***************************************************************************)
(* Characters                                                              *)
(***************************************************************************)
NUL == "NUL"

Lower == {"a","b","c","d","e","f","g","h","i","j","k","l","m","n","o","p","q","r","s","t","u","v","w","x","y","z"}

Upper == {"A","B","C","D","E","F","G","H","I","J","K","L","M","N","O","P","Q","R","S","T","U","V","W","X","Y","Z"}

Digit == {"0","1","2","3","4","5","6","7","8","9"}

Alpha == Lower \cup Upper

Alnum == Alpha \cup Digit

\* "%[ \t]"
Blank == {" ", "\t"}

\* "%[_a-zA-Z0-9]"
CcstrSet == Alnum \cup {"_"}

\* "%[_a-zA-Z0-9+\\-]"
CcstrlistSet == Alnum \cup {"_", "+", "-"}

\* "%*[ /\t]"
DoubleSep == {" ", "/", "\t"}

\* isspace()
IsSpace(c) == c \in {" ", "\t", "\n"}

\* the field width of every %255[...] conversion
ScanWidth == 255

Min(a, b) == IF a < b THEN a ELSE b

(***************************************************************************)
(* Buffers.  At(buf, p) is *p for a char* p into buf; a buffer is always   *)
(* NUL-terminated, so a read at or past its end yields NUL.                *)
(***************************************************************************)
At(buf, p) == IF p >= 1 /\ p <= Len(buf) THEN buf[p] ELSE NUL

\* the number of consecutive characters of `set` starting at p: what a
\* "%[set]" conversion (without width) would take
RECURSIVE Span(_, _, _)
Span(buf, p, set) ==
  IF At(buf, p) \in set THEN 1 + Span(buf, p + 1, set) ELSE 0

\* what "%255[set]" takes
SpanW(buf, p, set) == Min(Span(buf, p, set), ScanWidth)

\* the C string that starts at p (up to, not including, its NUL)
RECURSIVE strlen(_, _)
strlen(buf, p) == IF At(buf, p) = NUL THEN 0 ELSE 1 + strlen(buf, p + 1)

CStr(buf, p) == SubSeq(buf, p, p + strlen(buf, p) - 1)

\* strstr(line, "::") != NULL, for the string starting at p
RECURSIVE HasColonColon(_, _)
HasColonColon(buf, p) ==
  IF At(buf, p) = NUL THEN FALSE
  ELSE IF At(buf, p) = ":" /\ At(buf, p + 1) = ":" THEN TRUE
  ELSE HasColonColon(buf, p + 1)

DigitVal(c) ==
  CASE c = "0" -> 0 [] c = "1" -> 1 [] c = "2" -> 2 [] c = "3" -> 3
    [] c = "4" -> 4 [] c = "5" -> 5 [] c = "6" -> 6 [] c = "7" -> 7
    [] c = "8" -> 8 [] c = "9" -> 9

\* the number a run of decimal digits denotes
RECURSIVE Decimal(_)
Decimal(ds) ==
  IF ds = <<>> THEN 0
  ELSE 10 * Decimal(SubSeq(ds, 1, Len(ds) - 1)) + DigitVal(ds[Len(ds)])

(***************************************************************************)
(* The directive table COMPILECOMMAND_OPTIONS(option, name, cvariant,      *)
(* ctype) of compilerOracle.hpp, from which command_names, command2types   *)
(* and command2variant are expanded.  CompileCommand::Unknown and          *)
(* OptionType::Unknown are the strings "Unknown".                          *)
(***************************************************************************)
COMPILECOMMAND_OPTIONS ==
  <<
     [option |-> "Help", name |-> <<"h","e","l","p">>,
      cvariant |-> "Trivial", ctype |-> "Unknown"],
     [option |-> "Quiet", name |-> <<"q","u","i","e","t">>,
      cvariant |-> "Trivial", ctype |-> "Unknown"],
     [option |-> "Log", name |-> <<"l","o","g">>,
      cvariant |-> "Basic", ctype |-> "Bool"],
     [option |-> "Print", name |-> <<"p","r","i","n","t">>,
      cvariant |-> "Basic", ctype |-> "Bool"],
     [option |-> "Inline", name |-> <<"i","n","l","i","n","e">>,
      cvariant |-> "Basic", ctype |-> "Bool"],
     [option |-> "DontInline", name |-> <<"d","o","n","t","i","n","l","i","n","e">>,
      cvariant |-> "Basic", ctype |-> "Bool"],
     [option |-> "CompileOnly", name |-> <<"c","o","m","p","i","l","e","o","n","l","y">>,
      cvariant |-> "Basic", ctype |-> "Bool"],
     [option |-> "Exclude", name |-> <<"e","x","c","l","u","d","e">>,
      cvariant |-> "Basic", ctype |-> "Bool"],
     [option |-> "Break", name |-> <<"b","r","e","a","k">>,
      cvariant |-> "Basic", ctype |-> "Bool"],
     [option |-> "Option", name |-> <<"o","p","t","i","o","n">>,
      cvariant |-> "Legacy", ctype |-> "Unknown"],
     [option |-> "Vectorize", name |-> <<"V","e","c","t","o","r","i","z","e">>,
      cvariant |-> "Standard", ctype |-> "Bool"],
     [option |-> "MaxNodeLimit", name |-> <<"M","a","x","N","o","d","e","L","i","m","i","t">>,
      cvariant |-> "Standard", ctype |-> "Intx"],
     [option |-> "VectorizeDebug", name |-> <<"V","e","c","t","o","r","i","z","e","D","e","b","u","g">>,
      cvariant |-> "Standard", ctype |-> "Uintx"],
     [option |-> "TestOptionStr", name |-> <<"T","e","s","t","O","p","t","i","o","n","S","t","r">>,
      cvariant |-> "Standard", ctype |-> "Ccstr"],
     [option |-> "DisableIntrinsic", name |-> <<"D","i","s","a","b","l","e","I","n","t","r","i","n","s","i","c">>,
      cvariant |-> "Standard", ctype |-> "Ccstrlist"],
     [option |-> "CompileThresholdScaling", name |-> <<"C","o","m","p","i","l","e","T","h","r","e","s","h","o","l","d","S","c","a","l","i","n","g">>,
      cvariant |-> "Standard", ctype |-> "Double"]
  >>

CompileCommandCount == Len(COMPILECOMMAND_OPTIONS)

CompileCommand == {COMPILECOMMAND_OPTIONS[i].option : i \in 1..CompileCommandCount}

CommandIndex(cc) ==
  CHOOSE i \in 1..CompileCommandCount : COMPILECOMMAND_OPTIONS[i].option = cc

command_names == [cc \in CompileCommand |-> COMPILECOMMAND_OPTIONS[CommandIndex(cc)].name]

command2types == [cc \in CompileCommand |-> COMPILECOMMAND_OPTIONS[CommandIndex(cc)].ctype]

command2variant == [cc \in CompileCommand |-> COMPILECOMMAND_OPTIONS[CommandIndex(cc)].cvariant]

\* OPTION_TYPES(type, internal_type, name): optiontype_names
optiontype_names ==
  [Intx |-> <<"i","n","t","x">>, Uintx |-> <<"u","i","n","t","x">>,
   Bool |-> <<"b","o","o","l">>, Ccstr |-> <<"c","c","s","t","r">>,
   Ccstrlist |-> <<"c","c","s","t","r","l","i","s","t">>,
   Double |-> <<"d","o","u","b","l","e">>]

OptionType == DOMAIN optiontype_names

\* get_type_for<T>(): the value types has_option_value and add_option_string
\* are instantiated with, each named by the OptionType it maps to
ValueTypes == {"Intx", "Uintx", "Bool", "Ccstr", "Double"}

\* a Ccstrlist option is stored as a Ccstr
StoredType(type) == IF type = "Ccstrlist" THEN "Ccstr" ELSE type

(***************************************************************************)
(* Scanning primitives                                                     *)
(***************************************************************************)
\* parse_command_name() comparing with strncmp over the length of the name
parse_command_name_prefix(buf, p) ==
  LET n == SpanW(buf, p, Alnum)
      command == SubSeq(buf, p, p + n - 1)
      hits == {i \in 1..CompileCommandCount :
                 /\ Len(COMPILECOMMAND_OPTIONS[i].name) <= n
                 /\ COMPILECOMMAND_OPTIONS[i].name
                      = SubSeq(command, 1, Len(COMPILECOMMAND_OPTIONS[i].name))}
  IN  [command |-> IF n > 0 /\ hits # {}
                   THEN COMPILECOMMAND_OPTIONS[CHOOSE i \in hits : \A j \in hits : i <= j].option
                   ELSE "Unknown",
       bytes_read |-> n]

\* sscanf(line, "%255[a-zA-Z0-9]%n", command, bytes_read), then the strcmp
\* loop over command_names; bytes_read stays 0 when nothing is converted
parse_command_name(buf, p) ==
  LET n == SpanW(buf, p, Alnum)
      command == SubSeq(buf, p, p + n - 1)
      hits == {i \in 1..CompileCommandCount : COMPILECOMMAND_OPTIONS[i].name = command}
  IN  [command |-> IF n > 0 /\ hits # {}
                   THEN COMPILECOMMAND_OPTIONS[CHOOSE i \in hits : \A j \in hits : i <= j].option
                   ELSE "Unknown",
       bytes_read |-> n]

\* sscanf(line, "%*[ \t]%n", &whitespace_read)
skip_whitespace(buf, p) == Span(buf, p, Blank)

parse_option_type(option_type) ==
  IF \E ty \in OptionType : optiontype_names[ty] = option_type
  THEN CHOOSE ty \in OptionType : optiontype_names[ty] = option_type
  ELSE "Unknown"

(***************************************************************************)
(* MethodMatcher (methodMatcher.cpp): the pattern capability the oracle    *)
(* calls.  A Symbol* is a sequence of characters, NULL is NullSym.         *)
(***************************************************************************)
NULL == 0

NullSym == <<NUL>>

\* RANGEBASE of methodMatcher.cpp restricted to the characters of the model:
\* everything but blank, tab, ',', '.', '/', '(', ')', ';', '[' and ']'
RANGE0 == Alnum \cup {"_", "+", "-", "*", ":", "#"}

RANGESLASH == RANGE0 \cup {"/"}

\* strchr / strstr as an index into buf (0 when absent)
RECURSIVE IndexOfChar(_, _, _)
IndexOfChar(buf, p, c) ==
  IF At(buf, p) = NUL THEN 0
  ELSE IF At(buf, p) = c THEN p
  ELSE IndexOfChar(buf, p + 1, c)

RECURSIVE IndexOfColonColon(_, _)
IndexOfColonColon(buf, p) ==
  IF At(buf, p) = NUL THEN 0
  ELSE IF At(buf, p) = ":" /\ At(buf, p + 1) = ":" THEN p
  ELSE IndexOfColonColon(buf, p + 1)

\* canonicalize, have_colon branch: no '/' before the signature
RECURSIVE SlashBeforeSignature(_, _)
SlashBeforeSignature(buf, lp) ==
  IF At(buf, lp) = NUL \/ At(buf, lp) = "(" THEN FALSE
  ELSE IF At(buf, lp) = "/" THEN TRUE
  ELSE SlashBeforeSignature(buf, lp + 1)

\* canonicalize, '.' branch: the scan after the first '.', up to the first ','
RECURSIVE MixedSeparators(_, _, _)
MixedSeparators(buf, lp, in_signature) ==
  LET c == At(buf, lp)
      in_sig == in_signature \/ c = "("
  IN  IF c = NUL \/ c = "," THEN "NULL"
      ELSE IF ~in_sig /\ c = "/" THEN "Method pattern uses '/' together with '.'"
      ELSE IF c = "." THEN "Method pattern uses multiple '.' in pattern"
      ELSE MixedSeparators(buf, lp + 1, in_sig)

\* MethodMatcher::canonicalize(line, error_msg): rewrites the rest of the
\* line in place, '.', ',' and ':' becoming blanks ('.' a '/' with "::")
canonicalize(buf, p) ==
  LET colon == IndexOfColonColon(buf, p)
      have_colon == colon # 0
      dot == IndexOfChar(buf, p, ".")
      error_msg ==
        IF have_colon
        THEN IF At(buf, colon + 2) # NUL /\ IndexOfColonColon(buf, colon + 2) # 0
             THEN "Method pattern only allows one '::' allowed"
             ELSE IF SlashBeforeSignature(buf, p + 1)
             THEN "Method pattern uses '/' together with '::'"
             ELSE "NULL"
        ELSE IF dot # 0 THEN MixedSeparators(buf, dot + 1, FALSE) ELSE "NULL"
      last == p + strlen(buf, p) - 1
      conv(c) ==
        IF have_colon /\ c = "." THEN "/"
        ELSE IF have_colon /\ c = ":" THEN " "
        ELSE IF c = "," \/ c = "." THEN " "
        ELSE c
  IN  [error_msg |-> error_msg,
       buf |-> IF error_msg # "NULL" THEN buf
               ELSE [i \in 1..Len(buf) |->
                       IF i >= p /\ i <= last THEN conv(buf[i]) ELSE buf[i]]]

\* check_mode(name, error_msg)
check_mode(name) ==
  LET star1 == Len(name) > 0 /\ name[1] = "*"
      n1 == IF star1 THEN SubSeq(name, 2, Len(name)) ELSE name
      star2 == Len(n1) > 0 /\ n1[Len(n1)] = "*"
      n2 == IF star2 THEN SubSeq(n1, 1, Len(n1) - 1) ELSE n1
  IN  IF name = <<"*">> THEN [mode |-> "Any", name |-> name, error_msg |-> "NULL"]
      ELSE IF n2 = <<>>
      THEN [mode |-> "Any", name |-> n2, error_msg |-> "** Not a valid pattern"]
      ELSE IF \E i \in 1..Len(n2) : n2[i] = "*"
      THEN [mode |-> "Unknown", name |-> n2, error_msg |-> " Embedded * not allowed"]
      ELSE [mode |-> IF star1 /\ star2 THEN "Substring"
                     ELSE IF star1 THEN "Suffix"
                     ELSE IF star2 THEN "Prefix" ELSE "Exact",
            name |-> n2, error_msg |-> "NULL"]

\* the pattern of a default-constructed MethodMatcher
NoPattern ==
  [class_mode |-> "Exact", class_name |-> NullSym,
   method_mode |-> "Exact", method_name |-> NullSym, signature |-> NullSym]

\* MethodMatcher::parse_method_pattern(line, error_msg, matcher): `line` is
\* advanced past the pattern and the blanks after it; signatures are not
\* part of the model's alphabet
MethodMatcher_parse_method_pattern(buf, p) ==
  LET Scan(b, error_msg) ==
        LET p1 == p + Span(b, p, Blank)
            nc == SpanW(b, p1, RANGESLASH)
            ns == Span(b, p1 + nc, {" "})
            nm == SpanW(b, p1 + nc + ns, RANGE0)
            p2 == p1 + nc + ns + nm
            Modes(c, m) ==
              IF c.mode = "Unknown" \/ m.mode = "Unknown"
              THEN [error_msg |-> " Embedded * not allowed", buf |-> b, line |-> p1,
                    pattern |-> NoPattern]
              ELSE [error_msg |-> IF c.error_msg # "NULL" THEN c.error_msg ELSE m.error_msg,
                    buf |-> b, line |-> p2 + Span(b, p2, Blank),
                    pattern |-> [class_mode |-> c.mode, class_name |-> c.name,
                                 method_mode |-> m.mode, method_name |-> m.name,
                                 signature |-> NullSym]]
        IN  IF error_msg # "NULL"
            THEN [error_msg |-> error_msg, buf |-> b, line |-> p, pattern |-> NoPattern]
            ELSE IF nc = 0 \/ ns = 0 \/ nm = 0
            THEN [error_msg |-> "Could not parse method pattern", buf |-> b, line |-> p1,
                  pattern |-> NoPattern]
            ELSE Modes(check_mode(SubSeq(b, p1, p1 + nc - 1)),
                       check_mode(SubSeq(b, p1 + nc + ns, p1 + nc + ns + nm - 1)))
      Canonical(canon) == Scan(canon.buf, canon.error_msg)
  IN  Canonical(canonicalize(buf, p))

IsPrefix(s, t) == Len(s) <= Len(t) /\ SubSeq(t, 1, Len(s)) = s

IsSuffix(s, t) == Len(s) <= Len(t) /\ SubSeq(t, Len(t) - Len(s) + 1, Len(t)) = s

IsSubstring(s, t) ==
  \E i \in 1..(Len(t) - Len(s) + 1) : SubSeq(t, i, i + Len(s) - 1) = s

\* MethodMatcher::match(candidate, match, mode)
MethodMatcher_match(candidate, match, mode) ==
  CASE mode = "Any" -> TRUE
    [] mode = "Exact" -> candidate = match
    [] mode = "Prefix" -> IsPrefix(match, candidate)
    [] mode = "Suffix" -> IsSuffix(match, candidate)
    [] mode = "Substring" -> IsSubstring(match, candidate)
    [] OTHER -> FALSE

\* MethodMatcher::matches(method): method is [klass, name]
matches(pattern, method) ==
  /\ MethodMatcher_match(method.klass, pattern.class_name, pattern.class_mode)
  /\ MethodMatcher_match(method.name, pattern.method_name, pattern.method_mode)

(***************************************************************************)
(* State                                                                   *)
(***************************************************************************)
VARIABLES
  heap,            \* the TypedMethodOptionMatcher objects allocated so far; an address is an index
  option_list,     \* static TypedMethodOptionMatcher* option_list
  any_set,         \* static bool any_set
  quiet,           \* CompilerOracle::_quiet
  status,          \* "ok", or how the VM died: "assert", "segv", "unreachable"
  inserted,        \* history: the addresses add_option_string linked, oldest first
  last_op,         \* history: the last operation, its input and what it reported
  LogCompilation,  \* the -XX:+LogCompilation flag
  debug_build,     \* whether ASSERT is defined (assert() is compiled in)
  nops             \* the number of parsing operations performed

vars == <<heap, option_list, any_set, quiet, status, inserted, last_op,
          LogCompilation, debug_build, nops>>

(***************************************************************************)
(* TypedMethodOptionMatcher                                                *)
(***************************************************************************)
\* the union _u: `ty` is the member last written ("Zero" after the
\* constructor's memset); a double n / 10^k is the pair <<n, k>>
Value(ty, b, i, d, s) == [ty |-> ty, b |-> b, i |-> i, d |-> d, s |-> s]

ZeroValue == Value("Zero", FALSE, 0, <<0, 0>>, <<>>)

BoolValue(b) == Value("Bool", b, 0, <<0, 0>>, <<>>)

IntxValue(i) == Value("Intx", FALSE, i, <<0, 0>>, <<>>)

UintxValue(i) == Value("Uintx", FALSE, i, <<0, 0>>, <<>>)

DoubleValue(d) == Value("Double", FALSE, 0, d, <<>>)

CcstrValue(str) == Value("Ccstr", FALSE, 0, <<0, 0>>, str)

\* TypedMethodOptionMatcher(): the constructor
NewMatcher(pattern) ==
  [next |-> NULL, option |-> "Unknown", type |-> "Unknown", u |-> ZeroValue,
   pattern |-> pattern]

\* value<T>(): the member T of the union; reading a member other than the
\* one written reinterprets the bytes, which the model leaves symbolic
value(rec, T) == IF rec.u.ty = T THEN rec.u ELSE [rec.u EXCEPT !.ty = "Reinterpreted"]

\* The state a handler threads through its calls.
Machine ==
  [heap |-> heap, option_list |-> option_list, any_set |-> any_set, quiet |-> quiet,
   status |-> status, inserted |-> inserted,
   reports |-> <<>>, echoed |-> 0, warnings |-> 0, overrun |-> FALSE, handed |-> <<>>]

Die(m, how) == [m EXCEPT !.status = how]

\* print_parse_error, or the "unrecognized command" message with print_tip
Report(m, error_msg) == [m EXCEPT !.reports = Append(@, error_msg)]

\* "CompileCommand: %s " followed by matcher->print()
Echo(m) == IF m.quiet THEN m ELSE [m EXCEPT !.echoed = @ + 1]

\* operator new: the object gets the next address
Allocate(m, rec) == [m EXCEPT !.heap = Append(@, rec)]

\* TypedMethodOptionMatcher::clone(): a new matcher with the five pattern
\* fields of `this`; _next, _option, _type and _u are the constructor's
clone(this) ==
  NewMatcher([class_mode |-> this.pattern.class_mode,
              class_name |-> this.pattern.class_name,
              method_mode |-> this.pattern.method_mode,
              method_name |-> this.pattern.method_name,
              signature |-> this.pattern.signature])

\* init() that does not link the record to `next`
init_unlinked(rec, cc_option, type, next) ==
  [rec EXCEPT !.next = NULL, !.type = type, !.option = cc_option]

\* init(cc_option, type, next)
init(rec, cc_option, type, next) ==
  [rec EXCEPT !.next = next, !.type = type, !.option = cc_option]

WarnLog(m, cc_option) ==
  IF cc_option = "Log" /\ ~LogCompilation THEN [m EXCEPT !.warnings = @ + 1] ELSE m

\* add_option_string() setting any_set for every option
add_option_string_any(m, matcher, cc_option, val) ==
  LET type == StoredType(command2types[cc_option])
      m1 == WarnLog(m, cc_option)
  IN  IF m.status # "ok" THEN m
      ELSE IF debug_build /\ matcher = m.option_list THEN Die(m, "assert")
      ELSE IF debug_build /\ type # val.ty THEN Die(m1, "assert")
      ELSE IF matcher = NULL THEN Die(m1, "segv")
      ELSE [m1 EXCEPT !.heap = [@ EXCEPT ![matcher] = [init(@, cc_option, type, m.option_list) EXCEPT !.u = val]],
              !.option_list = matcher, !.inserted = Append(@, matcher),
              !.any_set = TRUE]

\* add_option_string<T>(matcher, cc_option, value); val.ty is T
add_option_string(m, matcher, cc_option, val) ==
  LET type == StoredType(command2types[cc_option])
      m1 == WarnLog(m, cc_option)
  IN  IF m.status # "ok" THEN m
      ELSE IF debug_build /\ matcher = m.option_list THEN Die(m, "assert")
      ELSE IF debug_build /\ type # val.ty THEN Die(m1, "assert")
      ELSE IF matcher = NULL THEN Die(m1, "segv")
      ELSE [m1 EXCEPT
              !.heap = [@ EXCEPT ![matcher] =
                          [init(@, cc_option, type, m.option_list) EXCEPT !.u = val]],
              !.option_list = matcher,
              !.inserted = Append(@, matcher),
              !.any_set = @ \/ cc_option \notin {"DontInline", "Inline", "Log"}]

\* match() without the comparison of _option
RECURSIVE match_any_option(_, _, _, _, _)
match_any_option(h, current, method, option, fuel) ==
  IF current = NULL \/ fuel = 0 THEN NULL
  ELSE IF matches(h[current].pattern, method) THEN current
  ELSE match_any_option(h, h[current].next, method, option, fuel - 1)

\* TypedMethodOptionMatcher::match(method, option, type), from `current`;
\* `fuel` bounds the walk by the number of objects
RECURSIVE match(_, _, _, _, _)
match(h, current, method, option, fuel) ==
  IF current = NULL \/ fuel = 0 THEN NULL
  ELSE IF h[current].option = option /\ matches(h[current].pattern, method) THEN current
  ELSE match(h, h[current].next, method, option, fuel - 1)

(***************************************************************************)
(* Queries                                                                 *)
(***************************************************************************)
\* has_option_value() without the early return of the lenient mode
has_option_value_unverified(T, method, option, old, verify_type) ==
  LET m == IF option_list # NULL
           THEN match(heap, option_list, method, option, Len(heap))
           ELSE NULL
  IN  IF m # NULL THEN [found |-> TRUE, value |-> value(heap[m], T), died |-> FALSE]
      ELSE [found |-> FALSE, value |-> old, died |-> FALSE]

\* CompilerOracle::has_option_value<T>(method, option, value, verify_type):
\* `found` is the result, `value` the caller's variable afterwards (`old`
\* when it is left alone), `died` whether the strict assert fired
has_option_value(T, method, option, old, verify_type) ==
  LET type == StoredType(command2types[option])
      m == IF option_list # NULL
           THEN match(heap, option_list, method, option, Len(heap))
           ELSE NULL
  IN  IF verify_type /\ type # T THEN [found |-> FALSE, value |-> old, died |-> FALSE]
      ELSE IF ~verify_type /\ debug_build /\ type # T
      THEN [found |-> FALSE, value |-> old, died |-> TRUE]
      ELSE IF m # NULL THEN [found |-> TRUE, value |-> value(heap[m], T), died |-> FALSE]
      ELSE [found |-> FALSE, value |-> old, died |-> FALSE]

check_predicate(command, method) ==
  LET r == has_option_value("Bool", method, command, BoolValue(FALSE), FALSE)
  IN  IF r.found THEN r.value.b ELSE FALSE

RECURSIVE has_command_from(_, _, _)
has_command_from(m, command, fuel) ==
  IF m = NULL \/ fuel = 0 THEN FALSE
  ELSE IF heap[m].option = command THEN TRUE
  ELSE has_command_from(heap[m].next, command, fuel - 1)

has_command(command) == has_command_from(option_list, command, Len(heap))

has_any_option == any_set

should_exclude(method) ==
  IF check_predicate("Exclude", method) THEN TRUE
  ELSE IF has_command("CompileOnly") THEN ~check_predicate("CompileOnly", method)
  ELSE FALSE

should_log(method) ==
  IF ~LogCompilation THEN FALSE
  ELSE IF ~has_command("Log") THEN TRUE
  ELSE check_predicate("Log", method)

(***************************************************************************)
(* Value scanning                                                          *)
(***************************************************************************)
\* sscanf(line, "%ld%n") and sscanf(line, "%lu%n"): white space, an optional
\* sign, decimal digits.  The digit runs of the model are short, so the
\* 64-bit range is never left; a negated uintx stands for its value mod 2^64.
ScanInteger(buf, p) ==
  LET ws == Span(buf, p, {" ", "\t", "\n"})
      sign == IF At(buf, p + ws) \in {"+", "-"} THEN 1 ELSE 0
      nd == Span(buf, p + ws + sign, Digit)
      mag == Decimal(SubSeq(buf, p + ws + sign, p + ws + sign + nd - 1))
  IN  [matched |-> nd > 0,
       value |-> IF sign = 1 /\ At(buf, p + ws) = "-" THEN 0 - mag ELSE mag,
       bytes_read |-> ws + sign + nd]

RECURSIVE StripTrailingZeros(_)
StripTrailingZeros(ds) ==
  IF ds # <<>> /\ ds[Len(ds)] = "0"
  THEN StripTrailingZeros(SubSeq(ds, 1, Len(ds) - 1))
  ELSE ds

\* atof of "<int>.<frac>": the number n / 10^k, as <<n, k>> in lowest terms of 10
atof(int, frac) ==
  LET f == StripTrailingZeros(frac)
  IN  <<Decimal(int \o f), Len(f)>>

Uninit == "UNINIT"

\* the bytes sscanf's %[ stores at value + off: the token and its NUL
Store(vbuf, off, token) ==
  SubSeq(vbuf, 1, off) \o token \o <<NUL>>
    \o SubSeq(vbuf, off + Len(token) + 2, Len(vbuf))

\* the while loop of the Ccstrlist branch; next_value and end_value are
\* offsets into value
RECURSIVE CcstrlistLoop(_, _, _, _, _, _)
CcstrlistLoop(buf, line, vbuf, next_value, end_value, total_bytes_read) ==
  LET ws == Span(buf, line, Blank)
      n == SpanW(buf, line + ws, CcstrlistSet)
      bytes_read == ws + n
      stored == Store(vbuf, next_value, SubSeq(buf, line + ws, line + ws + n - 1))
  IN  IF ws > 0 /\ n > 0
      THEN CcstrlistLoop(buf, line + bytes_read,
                         [stored EXCEPT ![end_value + 1] = " "],
                         next_value + bytes_read,
                         next_value + bytes_read - 1,
                         total_bytes_read + bytes_read)
      ELSE [value |-> vbuf, total_bytes_read |-> total_bytes_read]

ScanResult(m, total_bytes_read, errorbuf) ==
  [m |-> m, total_bytes_read |-> total_bytes_read, errorbuf |-> errorbuf]

CannotRead == "Value cannot be read for flag"

\* scan_value(type, line, total_bytes_read, matcher, cc_option, errorbuf, buf_size)
scan_value(m, type, buf, line0, total0, matcher, cc_option) ==
  LET skipped == skip_whitespace(buf, line0)
      line == line0 + skipped
      total == total0 + skipped
      int == ScanInteger(buf, line)
      ncs == SpanW(buf, line, CcstrSet)
      ncl == SpanW(buf, line, CcstrlistSet)
      vbuf0 == [i \in 1..(strlen(buf, line) + 1) |-> Uninit]
      lst == CcstrlistLoop(buf, line + ncl,
                           Store(vbuf0, 0, SubSeq(buf, line, line + ncl - 1)),
                           ncl + 1, ncl, total + ncl)
      nb == SpanW(buf, line, Alpha)
      word == SubSeq(buf, line, line + nb - 1)
      d1 == SpanW(buf, line, Digit)
      dsep == Span(buf, line + d1, DoubleSep)
      d2 == SpanW(buf, line + d1 + dsep, Digit)
  IN  CASE type = "Intx" ->
             IF int.matched
             THEN ScanResult(add_option_string(m, matcher, cc_option, IntxValue(int.value)),
                             total + int.bytes_read, "")
             ELSE ScanResult(m, total, CannotRead)
        [] type = "Uintx" ->
             IF int.matched
             THEN ScanResult(add_option_string(m, matcher, cc_option, UintxValue(int.value)),
                             total + int.bytes_read, "")
             ELSE ScanResult(m, total, CannotRead)
        [] type = "Ccstr" ->
             IF ncs > 0
             THEN ScanResult(add_option_string(m, matcher, cc_option,
                                               CcstrValue(SubSeq(buf, line, line + ncs - 1))),
                             total + ncs, "")
             ELSE ScanResult(m, total, CannotRead)
        [] type = "Ccstrlist" ->
             IF ncl > 0
             THEN ScanResult(add_option_string(m, matcher, cc_option,
                                               CcstrValue(CStr(lst.value, 1))),
                             lst.total_bytes_read, "")
             ELSE ScanResult(m, total, CannotRead)
        [] type = "Bool" ->
             IF At(buf, line) = NUL
             THEN ScanResult(add_option_string(m, matcher, cc_option, BoolValue(TRUE)),
                             total, "")
             ELSE IF nb > 0 /\ word = <<"t","r","u","e">>
             THEN ScanResult(add_option_string(m, matcher, cc_option, BoolValue(TRUE)),
                             total + nb, "")
             ELSE IF nb > 0 /\ word = <<"f","a","l","s","e">>
             THEN ScanResult(add_option_string(m, matcher, cc_option, BoolValue(FALSE)),
                             total + nb, "")
             ELSE ScanResult(m, total, CannotRead)
        [] type = "Double" ->
             IF d1 > 0 /\ dsep > 0 /\ d2 > 0
             THEN ScanResult(add_option_string(m, matcher, cc_option,
                               DoubleValue(atof(SubSeq(buf, line, line + d1 - 1),
                                                SubSeq(buf, line + d1 + dsep,
                                                       line + d1 + dsep + d2 - 1)))),
                             total + d1 + dsep + d2, "")
             ELSE ScanResult(m, total, CannotRead)
        [] OTHER -> ScanResult(m, total, "Type not supported")

\* `line++` over *line: stepping over the terminating NUL leaves the string
SkipOne(m, buf, line) == IF At(buf, line) = NUL THEN [m EXCEPT !.overrun = TRUE] ELSE m

\* scan_flag_and_value() without the comparison of the two types
scan_flag_and_value_untyped(m, type, buf, line, matcher) ==
  LET ws == Span(buf, line, Blank)
      n == SpanW(buf, line + ws, Alnum)
      flag == SubSeq(buf, line + ws, line + ws + n - 1)
      bytes_read == ws + n
      cc_option == parse_command_name(flag, 1).command
  IN  IF ws > 0 /\ n > 0
      THEN IF cc_option = "Unknown"
           THEN ScanResult(m, bytes_read + 1, "Flag name unknown")
           ELSE scan_value(SkipOne(m, buf, line + bytes_read), type, buf,
                           line + bytes_read + 1, bytes_read + 1, matcher, cc_option)
      ELSE ScanResult(m, 0, "Flag name should be alphanumeric")

\* scan_flag_and_value() reading the name with "%255[a-zA-Z0-9]%n", without
\* the "%*[ \t]" in front of it
scan_flag_and_value_unspaced(m, type, buf, line, matcher) ==
  LET n == SpanW(buf, line, Alnum)
      flag == SubSeq(buf, line, line + n - 1)
      bytes_read == n
      cc_option == parse_command_name(flag, 1).command
  IN  IF n > 0
      THEN IF cc_option = "Unknown"
           THEN ScanResult(m, bytes_read + 1, "Flag name unknown")
           ELSE IF command2types[cc_option] # type
           THEN ScanResult(m, bytes_read + 1, "Flag with type doesn't match supplied type")
           ELSE scan_value(SkipOne(m, buf, line + bytes_read), type, buf,
                           line + bytes_read + 1, bytes_read + 1, matcher, cc_option)
      ELSE ScanResult(m, 0, "Flag name should be alphanumeric")

\* scan_flag_and_value(type, line, total_bytes_read, matcher, errorbuf, buf_size)
scan_flag_and_value(m, type, buf, line, matcher) ==
  LET ws == Span(buf, line, Blank)
      n == SpanW(buf, line + ws, Alnum)
      flag == SubSeq(buf, line + ws, line + ws + n - 1)
      bytes_read == ws + n
      cc_option == parse_command_name(flag, 1).command
  IN  IF ws > 0 /\ n > 0
      THEN IF cc_option = "Unknown"
           THEN ScanResult(m, bytes_read + 1, "Flag name unknown")
           ELSE IF command2types[cc_option] # type
           THEN ScanResult(m, bytes_read + 1, "Flag with type doesn't match supplied type")
           ELSE scan_value(SkipOne(m, buf, line + bytes_read), type, buf,
                           line + bytes_read + 1, bytes_read + 1, matcher, cc_option)
      ELSE ScanResult(m, 0, "Flag name should be alphanumeric")

(***************************************************************************)
(* The line parser                                                         *)
(***************************************************************************)
\* TypedMethodOptionMatcher::parse_method_pattern(line, error_msg): the new
\* matcher is deleted again and NULL returned when the pattern is malformed
TypedMethodOptionMatcher_parse_method_pattern(buf, line) ==
  LET Matcher(r) ==
        [error_msg |-> r.error_msg, buf |-> r.buf, line |-> r.line,
         tom |-> IF r.error_msg # "NULL" THEN NoPattern ELSE r.pattern,
         null |-> r.error_msg # "NULL"]
  IN  Matcher(MethodMatcher_parse_method_pattern(buf, line))

Unrecognized == "CompileCommand: unrecognized command"

\* the while loop over the clauses of an option line; the archetype lives
\* outside the chain and is deleted when the loop ends
RECURSIVE OptionLoop(_, _, _, _)
OptionLoop(m, buf, line, archetype) ==
  LET n == SpanW(buf, line, Alnum)
      option_type == SubSeq(buf, line, line + n - 1)
      line1 == line + n
      type == parse_option_type(option_type)
      cc_option == parse_command_name(option_type, 1).command
      Advance(m2, line2) ==
        IF m2.status # "ok" THEN m2
        ELSE OptionLoop(Echo(m2), buf, line2 + skip_whitespace(buf, line2), archetype)
      Typed(r) ==
        IF r.errorbuf # "" THEN Report(r.m, r.errorbuf)
        ELSE Advance(r.m, line1 + r.total_bytes_read)
      Clause(m1, typed_matcher) ==
        IF type # "Unknown"
        THEN Typed(scan_flag_and_value(m1, type, buf, line1, typed_matcher))
        ELSE IF cc_option = "Unknown" THEN Report(m1, Unrecognized)
        ELSE Advance(add_option_string(m1, typed_matcher, cc_option, BoolValue(TRUE)), line1)
      Cloned(m1) == Clause(m1, Len(m1.heap))
  IN  IF n = 0 THEN m
      ELSE Cloned(Allocate(m, clone(archetype)))

\* the option branch of parse_from_line, `line` just after the command name
OptionLine(m, buf, line) ==
  LET Archetype(m1, a) ==
        IF a.null THEN Report(m1, a.error_msg)
        ELSE OptionLoop(m1, a.buf, a.line + skip_whitespace(a.buf, a.line),
                        NewMatcher(a.tom))
  IN  Archetype(SkipOne(m, buf, line),
                TypedMethodOptionMatcher_parse_method_pattern(buf, line + 1))

\* the Basic branch
BasicLine(m, buf, line, command) ==
  LET Done(m2) == IF m2.status # "ok" THEN m2 ELSE Echo(m2)
      Insert(m1) == Done(add_option_string(m1, Len(m1.heap), command, BoolValue(TRUE)))
      Matcher(a) ==
        IF a.error_msg # "NULL" THEN Report(m, a.error_msg)
        ELSE Insert(Allocate(m, NewMatcher(a.tom)))
  IN  Matcher(TypedMethodOptionMatcher_parse_method_pattern(buf, line))

\* the Standard branch: the result of parse_method_pattern is not examined
\* before scan_value is called with it
StandardLine(m, buf, line, command) ==
  LET type == command2types[command]
      Scanned(r) ==
        IF r.errorbuf # "" THEN Report(r.m, r.errorbuf)
        ELSE IF r.m.status # "ok" THEN r.m
        ELSE Echo(r.m)
      Read(m2, matcher, a) == Scanned(scan_value(m2, type, a.buf, a.line, 0, matcher, command))
      Allocated(m2, a) == Read(m2, Len(m2.heap), a)
      Matcher(m1, a) ==
        IF a.null THEN Read(m1, NULL, a)
        ELSE Allocated(Allocate(m1, NewMatcher(a.tom)), a)
  IN  Matcher(SkipOne(m, buf, line),
              TypedMethodOptionMatcher_parse_method_pattern(buf, line + 1))

\* CompilerOracle::parse_from_line(line); buf holds the line, its NUL and
\* the bytes that follow it in memory
parse_from_line(m, buf) ==
  LET pc == parse_command_name(buf, 1)
      command == pc.command
      line == 1 + pc.bytes_read
      variant == command2variant[command]
  IN  IF At(buf, 1) = NUL THEN m
      ELSE IF At(buf, 1) = "#" THEN m
      ELSE IF command = "Unknown" THEN Report(m, Unrecognized)
      ELSE IF command = "Quiet" THEN [m EXCEPT !.quiet = TRUE]
      ELSE IF command = "Help" THEN m
      ELSE IF command = "Option" THEN OptionLine(m, buf, line)
      ELSE IF variant = "Basic" THEN BasicLine(m, buf, line, command)
      ELSE IF variant = "Standard" THEN StandardLine(m, buf, line, command)
      ELSE IF debug_build THEN Die(m, "assert") ELSE m

(***************************************************************************)
(* The legacy -XX:CompileOnly list parser                                  *)
(***************************************************************************)
\* char name[1024]
name_size == 1024

\* the for loop copying a name: the characters up to NUL, method_sep, ','
\* or white space, at most name_size of them
RECURSIVE NameLength(_, _, _, _)
NameLength(buf, line, method_sep, i) ==
  IF i < name_size /\ At(buf, line) # NUL /\ At(buf, line) # method_sep
     /\ At(buf, line) # "," /\ ~IsSpace(At(buf, line))
  THEN NameLength(buf, line + 1, method_sep, i + 1)
  ELSE i

\* the while loop of parse_compile_only; className and methodName are
\* NullSym while NULL
RECURSIVE CompileOnlyLoop(_, _, _, _, _, _)
CompileOnlyLoop(m, buf, line0, method_sep, className0, methodName0) ==
  LET i == NameLength(buf, line0, method_sep, 0)
      line == line0 + i
      newName == [k \in 1..i |-> IF buf[line0 + k - 1] = "." THEN "/"
                                 ELSE buf[line0 + k - 1]]
      className1 == IF i > 0 /\ className0 = NullSym THEN newName ELSE className0
      methodName1 == IF i > 0 /\ className0 # NullSym THEN newName ELSE methodName0
      at_sep == At(buf, line) = method_sep
      className == IF at_sep /\ className1 = NullSym THEN <<>> ELSE className1
      c_match == IF at_sep
                 THEN IF className1 = NullSym THEN "Any" ELSE "Exact"
                 ELSE IF className = <<>> THEN "Any" ELSE "Exact"
      terminated == \/ At(buf, line) = ","
                    \/ At(buf, line) = NUL
                    \/ (At(buf, line) = "." /\ At(buf, line + 1) = NUL)
      methodName == IF methodName1 = NullSym THEN <<>> ELSE methodName1
      m_match == IF methodName1 = NullSym /\ ~at_sep THEN "Any" ELSE "Exact"
      m1 == Allocate(m, NewMatcher([class_mode |-> c_match, class_name |-> className,
                                    method_mode |-> m_match, method_name |-> methodName,
                                    signature |-> NullSym]))
      m2 == add_option_string(m1, Len(m1.heap), "CompileOnly", BoolValue(TRUE))
      next == IF At(buf, line) = NUL THEN line ELSE line + 1
  IN  IF m.status # "ok" \/ At(buf, line0) = NUL THEN m
      ELSE IF ~at_sep /\ className1 = NullSym THEN Die(m, "unreachable")
      ELSE IF terminated
      THEN CompileOnlyLoop(m2, buf, next, method_sep, NullSym, NullSym)
      ELSE CompileOnlyLoop(m, buf, next, method_sep, className, methodName1)

\* CompilerOracle::parse_compile_only(line)
parse_compile_only(m, buf) ==
  LET have_colon == HasColonColon(buf, 1)
      method_sep == IF have_colon THEN ":" ELSE "."
  IN  CompileOnlyLoop(m, buf, 1, method_sep, NullSym, NullSym)

(***************************************************************************)
(* The loaders: parse_from_string and parse_from_file                      *)
(***************************************************************************)
\* char token[1024]
token_size == 1024

\* the index of the first '\n' at or after sp, or of the end of the text
\* (the NUL of a string, the EOF of a stream)
LineEnd(text, sp) ==
  CHOOSE k \in sp..(Len(text) + 1) :
    /\ At(text, k) \in {"\n", NUL}
    /\ \A j \in sp..(k - 1) : At(text, j) \notin {"\n", NUL}

\* parse_line(token) for the callback parse_from_line; `residue` is what the
\* buffer holds after the NUL of the line, read only by a scanner that has
\* left the line
parse_line(m, token, residue) ==
  IF m.status # "ok" THEN m
  ELSE parse_from_line([m EXCEPT !.handed = Append(@, token)],
                       token \o <<NUL>> \o residue \o <<NUL>>)

\* the while loop of parse_from_string and of parse_from_file, from the
\* character at sp with pos = 0, and the call after the loop: characters are
\* copied to token until a '\n' (the line is parsed, pos = 0), the end of the
\* text or pos = sizeof(token) - 1 (the loop is left)
RECURSIVE TokenLoop(_, _, _, _)
TokenLoop(m, text, sp, residue) ==
  LET k == LineEnd(text, sp)
      full == k - sp >= token_size - 1
      token == IF full THEN SubSeq(text, sp, sp + token_size - 2)
               ELSE SubSeq(text, sp, k - 1)
      Continue(m1) == IF ~full /\ At(text, k) = "\n"
                      THEN TokenLoop(m1, text, k + 1, residue)
                      ELSE m1
  IN  Continue(parse_line(m, token, residue))

\* CompilerOracle::parse_from_string(str, parse_from_line)
parse_from_string(m, str, residue) == TokenLoop(m, str, 1, residue)

\* CompilerOracle::parse_from_file(): `stream` is the content of the command
\* file, NULL when it cannot be opened
parse_from_file(m, stream, residue) ==
  IF stream = NullSym THEN m ELSE TokenLoop(m, stream, 1, residue)

(***************************************************************************)
(* Inputs.  A line is written as its leading text, a separator and the     *)
(* fields that follow, each preceded by the separator: what an operator    *)
(* types as -XX:CompileCommand=<head><sep><field><sep><field>...           *)
(***************************************************************************)
T_Foo_bar == <<"F","o","o",".","b","a","r">>

T_Foo__bar == <<"F","o","o",":",":","b","a","r">>

T_Foo_baz == <<"F","o","o",".","b","a","z">>

T_Foo_ba_star == <<"F","o","o",".","b","a","*">>

T_Foo == <<"F","o","o">>

T_bar == <<"b","a","r">>

T_Bogus == <<"B","o","g","u","s">>

T_excludes == <<"e","x","c","l","u","d","e","s">>

T_true == <<"t","r","u","e">>

T_false == <<"f","a","l","s","e">>

T_5 == <<"5">>

T_7 == <<"7">>

T_x == <<"x">>

T_3 == <<"3">>

T_ab_c == <<"a","b","_","c">>

T_12_5 == <<"1","2",".","5">>

T_a == <<"a">>

T_b == <<"b">>

T_a__b_c == <<"a"," "," ","b"," ","c">>

T_a_b__c == <<"a"," ","b"," "," ","c">>

T_comment == <<"#","x">>

Name(cc) == command_names[cc]

Type(ty) == optiontype_names[ty]

Line(head, sep, fields) == [head |-> head, sep |-> sep, fields |-> fields]

RECURSIVE Join(_, _)
Join(sep, fields) ==
  IF fields = <<>> THEN <<>>
  ELSE <<sep>> \o Head(fields) \o Join(sep, Tail(fields))

\* the characters of a line
Render(l) == l.head \o Join(l.sep, l.fields)

TrivialLines ==
  { Line(<<>>, ",", <<>>),
    Line(T_comment, ",", <<>>),
    Line(Name("Quiet"), ",", <<>>),
    Line(Name("Help"), ",", <<>>),
    Line(T_excludes, ",", <<T_Foo_bar>>),
    Line(Name("Option"), ",", <<>>) }

BasicLines ==
  { Line(Name("Exclude"), ",", <<T_Foo_bar>>),
    Line(Name("Exclude"), " ", <<T_Foo_ba_star>>),
    Line(Name("Exclude"), ",", <<T_Foo>>),
    Line(Name("CompileOnly"), ",", <<T_Foo__bar>>),
    Line(Name("Log"), ",", <<T_Foo_baz>>) }

StandardLines ==
  { Line(Name("MaxNodeLimit"), ",", <<T_Foo_bar, T_5>>),
    Line(Name("MaxNodeLimit"), ",", <<T_Foo_bar, T_x>>),
    Line(Name("MaxNodeLimit"), ",", <<T_5>>),
    Line(Name("Vectorize"), ",", <<T_Foo_bar>>),
    Line(Name("MaxNodeLimit"), ",", <<>>) }

OptionLines ==
  { Line(Name("Option"), ",", <<T_Foo_bar, Name("Vectorize")>>),
    Line(Name("Option"), ",", <<T_Foo_bar, Type("Intx"), Name("MaxNodeLimit"), T_5>>),
    Line(Name("Option"), ",", <<T_Foo_bar, Name("Vectorize"),
                                Type("Intx"), Name("MaxNodeLimit"), T_7, Name("Exclude")>>),
    Line(Name("Option"), ",", <<T_Foo_bar, Name("Vectorize"), T_Bogus, Name("Exclude")>>),
    Line(Name("Option"), ",", <<T_Foo_bar, Name("Vectorize"),
                                Type("Intx"), Name("Vectorize"), T_5>>),
    Line(Name("Option"), ",", <<T_Foo_bar, Name("Inline"),
                                Type("Intx"), Name("MaxNodeLimit"), T_x>>),
    Line(Name("Option"), ",", <<T_Foo_bar, Type("Intx"), T_Bogus, T_5>>),
    Line(Name("Option"), ",", <<T_Foo_bar, Type("Bool"), Name("Exclude"), T_false>>),
    Line(Name("Option"), ",", <<T_Foo_bar, Type("Bool"), Name("CompileOnly"), T_false>>),
    Line(Name("Option"), ",", <<T_Foo_bar, Type("Bool"), Name("Log"), T_false>>),
    Line(Name("Option"), ",", <<T_Foo_bar, Type("Ccstrlist"), Name("DisableIntrinsic"),
                                T_a, T_b, Name("Vectorize")>>),
    Line(Name("Option"), ",", <<T_Foo_bar, Type("Ccstrlist"), Name("DisableIntrinsic"),
                                T_a__b_c>>),
    Line(Name("Option"), ",", <<T_Foo_bar, Type("Ccstrlist"), Name("DisableIntrinsic"),
                                T_a_b__c>>),
    Line(Name("Option"), ",", <<T_Foo_baz, Type("Uintx"), Name("VectorizeDebug"), T_3,
                                Type("Ccstr"), Name("TestOptionStr"), T_ab_c,
                                Type("Double"), Name("CompileThresholdScaling"), T_12_5>>),
    Line(Name("Option"), ",", <<T_Foo_bar, Type("Double"), Name("CompileThresholdScaling"),
                                T_12_5>>),
    Line(Name("Option"), ",", <<T_Foo_bar, Name("MaxNodeLimit")>>),
    Line(Name("Option"), ",", <<T_Foo_bar, Type("Bool"), Name("Vectorize")>>),
    Line(Name("Option"), ",", <<T_Foo>>) }

Lines == TrivialLines \cup BasicLines \cup StandardLines \cup OptionLines

\* what may lie in memory after a line's NUL: nothing, or what an earlier,
\* longer line left in the buffer
Residues == { <<>>, <<" ">> \o T_Foo \o <<" ">> \o T_bar \o <<" ">> \o Name("Vectorize") }

\* -XX:CompileOnly= values
T_Baz__qux == <<"B","a","z",":",":","q","u","x">>

T_Foo_ == <<"F","o","o",".">>

T__bar == <<".","b","a","r">>

T_Foo__ == <<"F","o","o",":",":">>

T___bar == <<":",":","b","a","r">>

CompileOnlyLists ==
  { T_Foo_bar, T_Foo__bar \o <<",">> \o T_Baz__qux,
    T_Foo_bar \o <<",">> \o T_Baz__qux,
    T_Foo_ \o <<",">> \o T__bar \o <<",">> \o T_Foo_,
    T_Foo__ \o <<",">> \o T___bar \o <<",">> \o T_Foo__,
    <<",">> \o T_Foo_bar,
    T_Foo_bar \o <<",", ",">> \o T_Foo_baz,
    T_Foo_bar \o <<",", " ">> \o T_Foo_baz }

T_newline == <<"\n">>

\* a comment line that fills the token buffer
T_long_comment == <<"#">> \o [i \in 1..(token_size - 1) |-> "x"]

\* -XX:CompileCommand= values of several lines
CompileCommandStrings ==
  { T_excludes \o <<",">> \o T_Foo_bar \o T_newline
      \o Name("Exclude") \o <<",">> \o T_Foo_bar,
    T_long_comment \o T_newline \o Name("Exclude") \o <<",">> \o T_Foo_bar }

\* the content of the command file
CommandFiles ==
  { NullSym,
    Name("Option") \o T_newline
      \o Name("Log") \o <<",">> \o T_Foo_baz \o T_newline
      \o Name("Exclude") \o <<",">> \o T_Foo \o T_newline }

\* the methods the compiler asks about
Methods ==
  { [klass |-> <<"F","o","o">>, name |-> <<"b","a","r">>],
    [klass |-> <<"F","o","o">>, name |-> <<"b","a","z">>],
    [klass |-> <<"B","a","z">>, name |-> <<"q","u","x">>] }

\* the number of parsing operations of a run
MaxOps == 2

(***************************************************************************)
(* The specification                                                       *)
(***************************************************************************)
NoOp ==
  [op |-> "none", input |-> Line(<<>>, ",", <<>>), residue |-> <<>>,
   reports |-> <<>>, echoed |-> 0, warnings |-> 0, overrun |-> FALSE, handed |-> <<>>,
   pre |-> [heap |-> <<>>, option_list |-> NULL, any_set |-> FALSE, quiet |-> FALSE]]

Init ==
  /\ heap = <<>>
  /\ option_list = NULL
  /\ any_set = FALSE
  /\ quiet = FALSE
  /\ status = "ok"
  /\ inserted = <<>>
  /\ last_op = NoOp
  /\ LogCompilation \in BOOLEAN
  /\ debug_build \in BOOLEAN
  /\ nops = 0

\* compilerOracle_init reads CompileCommand first, then CompileOnly, then
\* the command file
CompileCommandPhase == last_op.op \in {"none", "parse_from_line", "parse_from_string"}

CompileOnlyPhase == last_op.op # "parse_from_file"

\* the state after a handler that ended in machine state m
Commit(op, input, residue, m) ==
  /\ heap' = m.heap
  /\ option_list' = m.option_list
  /\ any_set' = m.any_set
  /\ quiet' = m.quiet
  /\ status' = m.status
  /\ inserted' = m.inserted
  /\ last_op' = [op |-> op, input |-> input, residue |-> residue,
                 reports |-> m.reports, echoed |-> m.echoed, warnings |-> m.warnings,
                 overrun |-> m.overrun, handed |-> m.handed,
                 pre |-> [heap |-> heap, option_list |-> option_list,
                          any_set |-> any_set, quiet |-> quiet]]
  /\ nops' = nops + 1
  /\ UNCHANGED <<LogCompilation, debug_build>>

\* one call of parse_from_line; when the scanner leaves the line, what it
\* then reads is whatever follows the line in memory
ParseFromLine ==
  /\ status = "ok"
  /\ nops < MaxOps
  /\ CompileCommandPhase
  /\ \E l \in Lines :
       LET Overrun(residue, m) == Commit("parse_from_line", l, residue, m)
           Outcome(m) ==
             IF ~m.overrun
             THEN Commit("parse_from_line", l, <<>>, m)
             ELSE \E residue \in Residues :
                    Overrun(residue,
                            parse_from_line(Machine,
                                            Render(l) \o <<NUL>> \o residue \o <<NUL>>))
       IN  Outcome(parse_from_line(Machine, Render(l) \o <<NUL>>))

\* one call of parse_compile_only
ParseCompileOnly ==
  /\ status = "ok"
  /\ nops < MaxOps
  /\ CompileOnlyPhase
  /\ \E list \in CompileOnlyLists :
       Commit("parse_compile_only", Line(list, ",", <<>>), <<>>,
              parse_compile_only(Machine, list \o <<NUL>>))

\* one call of parse_from_string with parse_from_line
ParseFromString ==
  /\ status = "ok"
  /\ nops < MaxOps
  /\ CompileCommandPhase
  /\ \E str \in CompileCommandStrings, residue \in Residues :
       LET Done(m) == Commit("parse_from_string", Line(str, ",", <<>>),
                             IF m.overrun THEN residue ELSE <<>>, m)
       IN  Done(parse_from_string(Machine, str, residue))

\* one call of parse_from_file
ParseFromFile ==
  /\ status = "ok"
  /\ nops < MaxOps
  /\ CompileOnlyPhase
  /\ \E stream \in CommandFiles, residue \in Residues :
       LET Done(m) == Commit("parse_from_file",
                             Line(stream, ",", <<>>),
                             IF m.overrun THEN residue ELSE <<>>, m)
       IN  Done(parse_from_file(Machine, stream, residue))

Next == ParseFromLine \/ ParseCompileOnly \/ ParseFromString \/ ParseFromFile

Spec == Init /\ [][Next]_vars

(***************************************************************************)
(* Properties                                                              *)
(***************************************************************************)
\* the chain from address a, head first
RECURSIVE ChainFrom(_, _, _)
ChainFrom(h, a, fuel) ==
  IF a = NULL \/ fuel = 0 THEN <<>>
  ELSE <<a>> \o ChainFrom(h, h[a].next, fuel - 1)

Chain == ChainFrom(heap, option_list, Len(heap))

PreChain == ChainFrom(last_op.pre.heap, last_op.pre.option_list, Len(last_op.pre.heap))

\* the positions in the insertion history of the records of kind `option`
\* that accept `method`
Accepting(method, option) ==
  {i \in 1..Len(inserted) :
     /\ heap[inserted[i]].option = option
     /\ matches(heap[inserted[i]].pattern, method)}

\* the record of kind `option` accepting `method` that was inserted last
Latest(method, option) ==
  inserted[CHOOSE i \in Accepting(method, option) :
             \A j \in Accepting(method, option) : j <= i]

\* the directive kinds that carry a value, and the type of a typed query
TypedCommands == {cc \in CompileCommand : command2types[cc] # "Unknown"}

QueryType(cc) == StoredType(command2types[cc])

\* what the caller's variable holds before a query
Untouched == Value("Caller", TRUE, 0, <<0, 0>>, <<"c","a","l","l","e","r">>)

\* C1: has_option_value(T, K) returns the value of the record of kind K
\* accepting T that was inserted last, whatever records of other kinds were
\* inserted around it, and returns false, leaving the caller's value alone,
\* exactly when no record of kind K accepts T.
C1_FirstMatchWins ==
  \A method \in Methods : \A cc \in TypedCommands :
    LET r == has_option_value(QueryType(cc), method, cc, Untouched, FALSE)
    IN  /\ ~r.died
        /\ r.found <=> Accepting(method, cc) # {}
        /\ ~r.found => r.value = Untouched
        /\ r.found => r.value = value(heap[Latest(method, cc)], QueryType(cc))

\* two records of one kind with different values accept a method, a record
\* of another kind was inserted between them, and the query answers
C1_Witness ==
  \E method \in Methods : \E cc \in TypedCommands :
    \E i, j, k \in 1..Len(inserted) :
      /\ i < j /\ j < k
      /\ {i, k} \subseteq Accepting(method, cc)
      /\ heap[inserted[j]].option # cc
      /\ heap[inserted[i]].u # heap[inserted[k]].u
      /\ k = Len(inserted)
      /\ has_option_value(QueryType(cc), method, cc, Untouched, FALSE).value
           = heap[inserted[k]].u

\* a record of kind `option` is in the store
HasRecord(option) == \E i \in 1..Len(inserted) : heap[inserted[i]].option = option

\* the record of kind `option` accepting `method` inserted last carries true
LatestCarriesTrue(method, option) ==
  /\ Accepting(method, option) # {}
  /\ heap[Latest(method, option)].u = BoolValue(TRUE)

\* C2: should_exclude(T) is true exactly when an exclude record accepts T,
\* or a compile-only record exists and none of them accepts T, however the
\* records entered the store.
C2_ShouldExclude ==
  \A method \in Methods :
    should_exclude(method) <=>
      \/ Accepting(method, "Exclude") # {}
      \/ HasRecord("CompileOnly") /\ Accepting(method, "CompileOnly") = {}

\* what should_exclude computes: true exactly when the exclude record
\* accepting T that was inserted last carries true, or a compile-only record
\* exists and the compile-only record accepting T that was inserted last, if
\* there is one, does not carry true
ShouldExcludeByValue ==
  \A method \in Methods :
    should_exclude(method) <=>
      \/ LatestCarriesTrue(method, "Exclude")
      \/ HasRecord("CompileOnly") /\ ~LatestCarriesTrue(method, "CompileOnly")

\* a compile-only record that carries false accepts a method, which is
\* therefore excluded although a compile-only record accepts it
ExcludedByFalseCompileOnly ==
  \E method \in Methods :
    /\ Accepting(method, "CompileOnly") # {}
    /\ Accepting(method, "Exclude") = {}
    /\ ~LatestCarriesTrue(method, "CompileOnly")
    /\ should_exclude(method)

\* C3: should_log(T) is false when logging is off, true when logging is on
\* and no log record exists, and otherwise true exactly when a log record
\* accepts T.
C3_ShouldLog ==
  \A method \in Methods :
    should_log(method) <=>
      /\ LogCompilation
      /\ ~HasRecord("Log") \/ Accepting(method, "Log") # {}

\* what should_log computes: false when logging is off, true when no log
\* record exists, and otherwise true exactly when the log record accepting T
\* that was inserted last carries true
ShouldLogByValue ==
  \A method \in Methods :
    should_log(method) <=>
      /\ LogCompilation
      /\ ~HasRecord("Log") \/ LatestCarriesTrue(method, "Log")

\* logging is on, a log record that carries false accepts a method, and the
\* method is not logged
NotLoggedByFalseLog ==
  \E method \in Methods :
    /\ LogCompilation
    /\ Accepting(method, "Log") # {}
    /\ ~LatestCarriesTrue(method, "Log")
    /\ ~should_log(method)

\* C4: has_any_option() is true exactly when the store holds a record whose
\* kind is none of Inline, DontInline and Log; it is never reset, and a
\* line that inserts no such record does not set it.
C4_AnySet ==
  /\ has_any_option <=>
       \E i \in 1..Len(Chain) :
         heap[Chain[i]].option \notin {"Inline", "DontInline", "Log"}
  /\ last_op.pre.any_set => has_any_option
  /\ Len(Chain) = Len(PreChain) => has_any_option = last_op.pre.any_set

\* the store holds records, all of them of kind Inline, DontInline or Log,
\* and has_any_option() is false
C4_Witness ==
  /\ Len(Chain) >= 2
  /\ \E i \in 1..Len(Chain) : heap[Chain[i]].option = "Log"
  /\ \E i \in 1..Len(Chain) : heap[Chain[i]].option = "Inline"
  /\ ~has_any_option

\* C5: a lenient query whose type differs from the registered type of the
\* option answers false and leaves the caller's value alone whatever the
\* store holds; with the registered type it answers as the strict query.
C5_LenientQuery ==
  \A method \in Methods : \A cc \in CompileCommand : \A T \in ValueTypes :
    LET r == has_option_value(T, method, cc, Untouched, TRUE)
    IN  IF T # QueryType(cc)
        THEN ~r.found /\ r.value = Untouched /\ ~r.died
        ELSE r = has_option_value(T, method, cc, Untouched, FALSE)

\* a record of the queried kind accepts the method, and the lenient query
\* of another type answers false while that of the registered type finds it
C5_Witness ==
  \E method \in Methods : \E cc \in TypedCommands : \E T \in ValueTypes :
    /\ T # QueryType(cc)
    /\ Accepting(method, cc) # {}
    /\ ~has_option_value(T, method, cc, Untouched, TRUE).found
    /\ has_option_value(QueryType(cc), method, cc, Untouched, TRUE).found

(***************************************************************************)
(* The reading of a line by the grammar of the directives, from its fields *)
(***************************************************************************)
RegisteredNames == {COMPILECOMMAND_OPTIONS[i].name : i \in 1..CompileCommandCount}

TypeNames == {optiontype_names[t] : t \in OptionType}

KindOf(name) == CHOOSE cc \in CompileCommand : command_names[cc] = name

TypeOf(name) == CHOOSE t \in OptionType : optiontype_names[t] = name

\* the longest run of letters and digits a text begins with
LeadingToken(text) ==
  SubSeq(text, 1, CHOOSE k \in 0..Len(text) :
                    /\ \A i \in 1..k : text[i] \in Alnum
                    /\ k = Len(text) \/ text[k + 1] \notin Alnum)

\* a pattern "owner.member" or "owner::member"
PatternSplit(f) ==
  LET dots == {i \in 1..Len(f) : f[i] = "."}
      colons == {i \in 1..(Len(f) - 1) : f[i] = ":" /\ f[i + 1] = ":"}
      first(S) == CHOOSE i \in S : \A j \in S : i <= j
  IN  IF colons # {}
      THEN [owner |-> SubSeq(f, 1, first(colons) - 1),
            member |-> SubSeq(f, first(colons) + 2, Len(f))]
      ELSE IF dots # {}
      THEN [owner |-> SubSeq(f, 1, first(dots) - 1),
            member |-> SubSeq(f, first(dots) + 1, Len(f))]
      ELSE [owner |-> f, member |-> <<>>]

\* a name, with a wildcard only at its ends
WellFormedPart(part) ==
  /\ part # <<>>
  /\ \A i \in 1..Len(part) : part[i] \in Alnum \cup {"_", "*"}
  /\ \A i \in 2..(Len(part) - 1) : part[i] # "*"

WellFormedPattern(f) ==
  WellFormedPart(PatternSplit(f).owner) /\ WellFormedPart(PatternSplit(f).member)

\* a name is accepted by a part of a pattern
PartAccepts(part, name) ==
  LET front == part[1] = "*"
      back == part[Len(part)] = "*"
      body == SubSeq(part, IF front THEN 2 ELSE 1,
                     IF back THEN Len(part) - 1 ELSE Len(part))
  IN  IF part = <<"*">> THEN TRUE
      ELSE IF front /\ back
      THEN \E i \in 1..(Len(name) - Len(body) + 1) : SubSeq(name, i, i + Len(body) - 1) = body
      ELSE IF back THEN Len(body) <= Len(name) /\ SubSeq(name, 1, Len(body)) = body
      ELSE IF front
      THEN Len(body) <= Len(name)
           /\ SubSeq(name, Len(name) - Len(body) + 1, Len(name)) = body
      ELSE name = body

PatternAccepts(f, method) ==
  /\ PartAccepts(PatternSplit(f).owner, method.klass)
  /\ PartAccepts(PatternSplit(f).member, method.name)

\* the tokens of a text, separated by runs of blanks
RECURSIVE TokensOf(_)
TokensOf(f) ==
  IF f = <<>> THEN <<>>
  ELSE IF Head(f) \in Blank THEN TokensOf(Tail(f))
  ELSE LET n == CHOOSE k \in 1..Len(f) :
                  /\ \A i \in 1..k : f[i] \notin Blank
                  /\ k = Len(f) \/ f[k + 1] \in Blank
       IN  <<SubSeq(f, 1, n)>> \o TokensOf(SubSeq(f, n + 1, Len(f)))

RECURSIVE AllTokens(_)
AllTokens(fs) == IF fs = <<>> THEN <<>> ELSE TokensOf(Head(fs)) \o AllTokens(Tail(fs))

RECURSIVE Spaced(_)
Spaced(tokens) ==
  IF Len(tokens) = 1 THEN Head(tokens)
  ELSE Head(tokens) \o <<" ">> \o Spaced(Tail(tokens))

\* the clauses of an option line, from the fields after its pattern; a
\* string list runs to the end of the line
RECURSIVE ClausesOf(_)
ClausesOf(fs) ==
  IF fs = <<>> THEN <<>>
  ELSE IF Head(fs) \notin TypeNames
  THEN <<[typed |-> FALSE, type |-> <<>>, name |-> Head(fs), val |-> <<>>]>>
       \o ClausesOf(Tail(fs))
  ELSE IF Head(fs) = Type("Ccstrlist") \/ Len(fs) <= 3
  THEN <<[typed |-> TRUE, type |-> fs[1], name |-> IF Len(fs) >= 2 THEN fs[2] ELSE <<>>,
          val |-> SubSeq(fs, 3, Len(fs))]>>
  ELSE <<[typed |-> TRUE, type |-> fs[1], name |-> fs[2], val |-> <<fs[3]>>]>>
       \o ClausesOf(SubSeq(fs, 4, Len(fs)))

IsDigits(f) == f # <<>> /\ \A i \in 1..Len(f) : f[i] \in Digit

Unsigned(f) == IF f # <<>> /\ f[1] \in {"+", "-"} THEN Tail(f) ELSE f

DotOf(f) == CHOOSE i \in 1..Len(f) : f[i] = "."

\* the value text is in the lexical form of the type
ValidValue(type, val) ==
  CASE type = "Bool" -> val \in {<<T_true>>, <<T_false>>}
    [] type = "Intx" -> Len(val) = 1 /\ IsDigits(Unsigned(val[1]))
    [] type = "Uintx" -> Len(val) = 1 /\ IsDigits(val[1])
    [] type = "Ccstr" ->
         /\ Len(val) = 1 /\ val[1] # <<>>
         /\ \A i \in 1..Len(val[1]) : val[1][i] \in Alnum \cup {"_"}
    [] type = "Ccstrlist" ->
         /\ AllTokens(val) # <<>>
         /\ \A t \in 1..Len(AllTokens(val)) : \A i \in 1..Len(AllTokens(val)[t]) :
              AllTokens(val)[t][i] \in Alnum \cup {"_", "+", "-"}
    [] type = "Double" ->
         /\ Len(val) = 1
         /\ \E i \in 1..Len(val[1]) : val[1][i] = "."
         /\ IsDigits(SubSeq(val[1], 1, DotOf(val[1]) - 1))
         /\ IsDigits(SubSeq(val[1], DotOf(val[1]) + 1, Len(val[1])))

\* the value a value text denotes
ValueOf(type, val) ==
  CASE type = "Bool" -> BoolValue(val = <<T_true>>)
    [] type = "Intx" ->
         IntxValue(IF val[1][1] = "-" THEN 0 - Decimal(Unsigned(val[1]))
                   ELSE Decimal(Unsigned(val[1])))
    [] type = "Uintx" -> UintxValue(Decimal(val[1]))
    [] type = "Ccstr" -> CcstrValue(val[1])
    [] type = "Ccstrlist" -> CcstrValue(Spaced(AllTokens(val)))
    [] type = "Double" ->
         DoubleValue(atof(SubSeq(val[1], 1, DotOf(val[1]) - 1),
                          SubSeq(val[1], DotOf(val[1]) + 1, Len(val[1]))))

\* a clause that is well formed: a bare boolean directive name, or a type,
\* a name registered with that type and a value in its lexical form
ClauseOK(c) ==
  /\ c.name \in RegisteredNames
  /\ IF c.typed
     THEN /\ command2types[KindOf(c.name)] = TypeOf(c.type)
          /\ ValidValue(TypeOf(c.type), c.val)
     ELSE command2types[KindOf(c.name)] = "Bool"

\* a clause that fails: an unknown name, a type that is not the registered
\* one, or a value text that cannot be read
ClauseFails(c) ==
  /\ c.name # <<>>
  /\ \/ c.name \notin RegisteredNames
     \/ /\ c.typed
        /\ \/ command2types[KindOf(c.name)] # TypeOf(c.type)
           \/ c.val # <<>> /\ ~ValidValue(TypeOf(c.type), c.val)

\* the record a well-formed clause stands for
RecordOf(c) ==
  [option |-> KindOf(c.name),
   value |-> IF c.typed THEN ValueOf(TypeOf(c.type), c.val) ELSE BoolValue(TRUE)]

(***************************************************************************)
(* The effect of the last operation                                        *)
(***************************************************************************)
ParsedLine == last_op.op = "parse_from_line"

TheLine == last_op.input

\* the records the last operation put at the head of the chain, newest first
Added == SubSeq(Chain, 1, Len(Chain) - Len(PreChain))

\* the same, oldest first, as kind and value
AddedRecords ==
  [i \in 1..Len(Added) |->
     [option |-> heap[Added[Len(Added) + 1 - i]].option,
      value |-> heap[Added[Len(Added) + 1 - i]].u]]

\* the store as it was is the tail of the chain
StoreKept ==
  /\ Len(Chain) >= Len(PreChain)
  /\ SubSeq(Chain, Len(Chain) - Len(PreChain) + 1, Len(Chain)) = PreChain
  /\ \A i \in 1..Len(PreChain) : heap[PreChain[i]] = last_op.pre.heap[PreChain[i]]

StoreUnchanged == StoreKept /\ Added = <<>>

Returned == status = "ok"

\* an option line with a well-formed pattern, and its clauses
OptionLineRead ==
  /\ ParsedLine
  /\ TheLine.head = Name("Option")
  /\ TheLine.fields # <<>>
  /\ WellFormedPattern(TheLine.fields[1])

TheClauses == ClausesOf(Tail(TheLine.fields))

\* clause k is the first clause that fails, all clauses before it well formed
FirstFailing(k) ==
  /\ k \in 1..Len(TheClauses)
  /\ ClauseFails(TheClauses[k])
  /\ \A i \in 1..(k - 1) : ClauseOK(TheClauses[i])

\* C6: a line that is neither empty nor a comment and whose leading
\* alphanumeric token is not exactly a registered directive name is reported
\* as an error once and leaves the store, any_set and quiet as they were; an
\* option clause whose bare name is not registered is reported as an error
\* and adds no record, nor does any clause after it.
C6_UnknownName ==
  /\ ( /\ ParsedLine
       /\ Render(TheLine) # <<>>
       /\ Render(TheLine)[1] # "#"
       /\ LeadingToken(Render(TheLine)) \notin RegisteredNames )
     => /\ Returned
        /\ last_op.reports = <<Unrecognized>>
        /\ StoreUnchanged
        /\ any_set = last_op.pre.any_set
        /\ quiet = last_op.pre.quiet
  /\ \A k \in 1..Len(TheLine.fields) :
       ( /\ OptionLineRead
         /\ FirstFailing(k)
         /\ ~TheClauses[k].typed )
       => /\ Returned
          /\ last_op.reports = <<Unrecognized>>
          /\ StoreKept
          /\ Len(Added) = k - 1
          /\ quiet = last_op.pre.quiet

\* a line whose leading token only begins with a registered name was read
\* into a store that held records, and so was an option line whose second
\* clause is an unknown bare name
C6_Witness ==
  \/ /\ ParsedLine
     /\ LeadingToken(Render(TheLine)) = T_excludes
     /\ PreChain # <<>>
     /\ last_op.reports = <<Unrecognized>>
  \/ /\ OptionLineRead
     /\ FirstFailing(2)
     /\ ~TheClauses[2].typed
     /\ Len(Added) = 1

\* a Basic or Standard line whose pattern is malformed or whose value text
\* is not in the lexical form of the registered type
FailingLine ==
  /\ ParsedLine
  /\ TheLine.head \in RegisteredNames
  /\ command2variant[KindOf(TheLine.head)] \in {"Basic", "Standard"}
  /\ TheLine.fields # <<>>
  /\ \/ ~WellFormedPattern(TheLine.fields[1])
     \/ /\ command2variant[KindOf(TheLine.head)] = "Standard"
        /\ Len(TheLine.fields) = 2
        /\ ~ValidValue(command2types[KindOf(TheLine.head)], <<TheLine.fields[2]>>)

\* C7: a Basic or Standard line that fails a sub-parse is rejected with an
\* error message, appends no record, leaves any_set as it was, and
\* parse_from_line returns normally.
C7_LineRejected ==
  FailingLine
    => /\ Returned
       /\ Len(last_op.reports) = 1
       /\ StoreUnchanged
       /\ any_set = last_op.pre.any_set

\* C8: on an option line whose clause k is the first that fails, the store
\* afterwards is the store before it with exactly the records of the clauses
\* before k put in front, the last of them at the head; the failing clause
\* and the clauses after it add no record, and one error is reported.
C8_PrefixCommitted ==
  \A k \in 1..Len(TheLine.fields) :
    (OptionLineRead /\ FirstFailing(k))
      => /\ Returned
         /\ StoreKept
         /\ AddedRecords = [i \in 1..(k - 1) |-> RecordOf(TheClauses[i])]
         /\ Len(last_op.reports) = 1

\* the second clause of an option line failed on its type or its value, a
\* clause came after it, and the store held records before the line
C8_Witness ==
  /\ OptionLineRead
  /\ \E k \in 2..Len(TheClauses) :
       /\ FirstFailing(k)
       /\ TheClauses[k].typed
       /\ TheClauses[k].name \in RegisteredNames
  /\ PreChain # <<>>
  /\ Len(Added) = 1

\* C9: a well-formed option line with n >= 1 clauses over a pattern P
\* appends exactly n records, one per clause in the order of the clauses,
\* each with the kind and the value of its clause and each accepting
\* exactly the methods P accepts.
C9_RecordPerClause ==
  ( /\ OptionLineRead
    /\ TheClauses # <<>>
    /\ \A i \in 1..Len(TheClauses) : ClauseOK(TheClauses[i]) )
  => /\ Returned
     /\ last_op.reports = <<>>
     /\ StoreKept
     /\ AddedRecords = [i \in 1..Len(TheClauses) |-> RecordOf(TheClauses[i])]
     /\ \A i \in 1..Len(Added) : \A method \in Methods :
          matches(heap[Added[i]].pattern, method)
            <=> PatternAccepts(TheLine.fields[1], method)

\* the machine state the last operation started from
PreMachine ==
  [heap |-> last_op.pre.heap, option_list |-> last_op.pre.option_list,
   any_set |-> last_op.pre.any_set, quiet |-> last_op.pre.quiet,
   status |-> "ok", inserted |-> <<>>,
   reports |-> <<>>, echoed |-> 0, warnings |-> 0, overrun |-> FALSE, handed |-> <<>>]

\* the line with the fields of its clause separated by blanks, the pattern
\* still ended by a comma
BlankSeparated(l) ==
  l.head \o <<",">> \o l.fields[1] \o <<",">> \o Tail(Join(" ", Tail(l.fields))) \o <<NUL>>

\* the line with blanks for all its separators
AllBlank(l) == Render([l EXCEPT !.sep = " "]) \o <<NUL>>

\* a text of the line leaves the store as the last operation left it
SameOutcome(text) ==
  LET w == parse_from_line(PreMachine, text)
  IN  /\ w.status = "ok"
      /\ w.reports = <<>>
      /\ w.heap = heap
      /\ w.option_list = option_list
      /\ w.any_set = any_set

\* an option line of one typed clause, commas throughout
CommaForm ==
  /\ OptionLineRead
  /\ TheLine.sep = ","
  /\ \A i \in 1..Len(Render(TheLine)) : Render(TheLine)[i] \notin Blank
  /\ Len(TheClauses) = 1
  /\ TheClauses[1].typed
  /\ ClauseOK(TheClauses[1])

\* C10: the form option,<pattern>,<typename>,<optionname>,<value>, commas
\* throughout, the type the registered one and the value well formed, is
\* accepted and appends exactly one record with that option and value, the
\* record the clause with blanks for separators produces.
C10_CommaForm ==
  CommaForm
    => /\ Returned
       /\ last_op.reports = <<>>
       /\ StoreKept
       /\ AddedRecords = <<RecordOf(TheClauses[1])>>
       /\ SameOutcome(BlankSeparated(TheLine))
       /\ TheClauses[1].type # Type("Double") => SameOutcome(AllBlank(TheLine))

\* a comma-separated typed clause put a record in front of a store that
\* held records
C10_Witness ==
  /\ CommaForm
  /\ TheClauses[1].type = Type("Double")
  /\ PreChain # <<>>
  /\ Len(Added) = 1


(***************************************************************************)
(* String lists                                                            *)
(***************************************************************************)
\* an option line of one typed string-list clause in its lexical form
ListLine ==
  /\ OptionLineRead
  /\ Len(TheClauses) = 1
  /\ TheClauses[1].typed
  /\ TheClauses[1].type = Type("Ccstrlist")
  /\ ClauseOK(TheClauses[1])

\* the value text as scan_value is handed it: the fields of the value with
\* the separators as blanks, after the separator that follows the name
ListText == Join(" ", TheClauses[1].val)

\* the index of the last character of the last token of a text
EndOfTokens(text) ==
  CHOOSE k \in 0..Len(text) :
    /\ k > 0 => text[k] \notin Blank
    /\ \A i \in (k + 1)..Len(text) : text[i] \in Blank

\* scan_value on the value text alone, with a fresh matcher
ListScan ==
  LET Scan(m1) == scan_value(m1, "Ccstrlist", ListText \o <<NUL>>, 1, 0,
                             Len(m1.heap), KindOf(TheClauses[1].name))
  IN  Scan(Allocate(PreMachine, NewMatcher(NoPattern)))

\* C11: a string-list value of tokens t1..tn separated by non-empty runs of
\* blanks, with leading blanks, is stored as t1 ' ' t2 ' ' ... ' ' tn, and
\* the bytes reported as consumed are those up to the end of tn.
C11_ListNormalized ==
  ListLine
    => /\ ListScan.errorbuf = ""
       /\ ListScan.m.heap[ListScan.m.option_list].u
            = CcstrValue(Spaced(AllTokens(TheClauses[1].val)))
       /\ ListScan.total_bytes_read = EndOfTokens(ListText)
       /\ Len(Added) = 1
       /\ heap[Added[1]].u = CcstrValue(Spaced(AllTokens(TheClauses[1].val)))

\* what the loop of the string-list branch stores: the tokens up to and
\* including the first one that follows a gap wider than one blank
RECURSIVE UpToWideGap(_, _)
UpToWideGap(text, k) ==
  IF k > Len(text) THEN text
  ELSE IF text[k] \in Blank /\ k > 1 /\ text[k - 1] \in Blank
  THEN SubSeq(text, 1, k - 2) \o <<" ">> \o Head(TokensOf(SubSeq(text, k, Len(text))))
  ELSE UpToWideGap(text, k + 1)

\* the stored list is the value cut after the token that follows the first
\* wide gap: all of it when the wide gap is the last one
ListCutAtWideGap ==
  ListLine
    => /\ Len(Added) = 1
       /\ heap[Added[1]].u = CcstrValue(UpToWideGap(Tail(ListText), 1))

\* a list whose wide gap comes last was stored whole
ListWithLastGapWide ==
  /\ ListLine
  /\ TheClauses[1].val = <<T_a_b__c>>
  /\ heap[Added[1]].u = CcstrValue(<<"a", " ", "b", " ", "c">>)

(***************************************************************************)
(* The legacy list, read token by token                                    *)
(***************************************************************************)
LegacyRead == last_op.op = "parse_compile_only"

TheList == last_op.input.head

\* the comma-separated tokens of a text
RECURSIVE SplitCommas(_)
SplitCommas(text) ==
  LET commas == {i \in 1..Len(text) : text[i] = ","}
      k == CHOOSE i \in commas : \A j \in commas : i <= j
  IN  IF commas = {} THEN <<text>>
      ELSE <<SubSeq(text, 1, k - 1)>> \o SplitCommas(SubSeq(text, k + 1, Len(text)))

TheTokens == SplitCommas(TheList)

\* a token owner.member or owner::member
TokenSplit(t) ==
  LET dots == {i \in 1..Len(t) : t[i] = "."}
      colons == {i \in 1..(Len(t) - 1) : t[i] = ":" /\ t[i + 1] = ":"}
      first(S) == CHOOSE i \in S : \A j \in S : i <= j
  IN  IF colons # {}
      THEN [separated |-> TRUE, owner |-> SubSeq(t, 1, first(colons) - 1),
            member |-> SubSeq(t, first(colons) + 2, Len(t))]
      ELSE IF dots # {}
      THEN [separated |-> TRUE, owner |-> SubSeq(t, 1, first(dots) - 1),
            member |-> SubSeq(t, first(dots) + 1, Len(t))]
      ELSE [separated |-> FALSE, owner |-> t, member |-> <<>>]

IsName(part) == part # <<>> /\ \A i \in 1..Len(part) : part[i] \in Alnum

\* every token has an owner, a separator and a member
FullTokens ==
  \A i \in 1..Len(TheTokens) :
    /\ TokenSplit(TheTokens[i]).separated
    /\ IsName(TokenSplit(TheTokens[i]).owner)
    /\ IsName(TokenSplit(TheTokens[i]).member)

\* the records added, oldest first, are one compile-only record of value
\* true per token, with the owner and the member of the token
OneRecordPerFullToken ==
  /\ Returned
  /\ StoreKept
  /\ Len(Added) = Len(TheTokens)
  /\ \A i \in 1..Len(Added) :
       LET rec == heap[Added[Len(Added) + 1 - i]]
       IN  /\ rec.option = "CompileOnly"
           /\ rec.u = BoolValue(TRUE)
           /\ rec.pattern.class_mode = "Exact"
           /\ rec.pattern.class_name = TokenSplit(TheTokens[i]).owner
           /\ rec.pattern.method_mode = "Exact"
           /\ rec.pattern.method_name = TokenSplit(TheTokens[i]).member

\* C12: the legacy list parser turns each token owner.member or
\* owner::member into one compile-only record of value true with the owner
\* and the member of the token, also when the two separator styles are mixed
\* in one input.
C12_LegacyTokens ==
  (LegacyRead /\ FullTokens) => OneRecordPerFullToken

\* the tokens of the list all use the separator that the presence of "::"
\* anywhere in the list selects
OneStyle ==
  \A i \in 1..Len(TheTokens) :
    HasColonColon(TheList \o <<NUL>>, 1) = HasColonColon(TheTokens[i] \o <<NUL>>, 1)

\* lists in one style are read as the tokens say
LegacyOneStyle ==
  (LegacyRead /\ FullTokens /\ OneStyle) => OneRecordPerFullToken

\* a dotted token of a list that holds "::" elsewhere became a record whose
\* owner is the whole token with '/' for '.', its member matching any name
DottedTokenAsOwner ==
  /\ LegacyRead
  /\ TheList = T_Foo_bar \o <<",">> \o T_Baz__qux
  /\ Len(Added) = 2
  /\ heap[Added[2]].pattern.class_mode = "Exact"
  /\ heap[Added[2]].pattern.class_name = <<"F","o","o","/","b","a","r">>
  /\ heap[Added[2]].pattern.method_mode = "Any"
  /\ heap[Added[1]].pattern.class_name = <<"B","a","z">>
  /\ heap[Added[1]].pattern.method_name = <<"q","u","x">>

\* every token has a separator, and an owner and a member that are names or
\* empty, not both empty
PartialTokens ==
  \A i \in 1..Len(TheTokens) :
    LET t == TokenSplit(TheTokens[i])
    IN  /\ t.separated
        /\ t.owner = <<>> \/ IsName(t.owner)
        /\ t.member = <<>> \/ IsName(t.member)
        /\ t.owner # <<>> \/ t.member # <<>>

\* a method is accepted by a token: an empty part accepts any name
TokenAccepts(token, method) ==
  /\ TokenSplit(token).owner \in {<<>>, method.klass}
  /\ TokenSplit(token).member \in {<<>>, method.name}

\* the record at address a is the compile-only record of a token
RecordOfToken(a, token) ==
  /\ heap[a].option = "CompileOnly"
  /\ heap[a].u = BoolValue(TRUE)
  /\ \A method \in Methods : matches(heap[a].pattern, method) <=> TokenAccepts(token, method)

\* C13: in the legacy list every token produces one compile-only record, an
\* empty owner or member part accepting any name, also for the last token of
\* the input.
C13_EmptyParts ==
  (LegacyRead /\ PartialTokens /\ OneStyle)
    => /\ Returned
       /\ StoreKept
       /\ Len(Added) = Len(TheTokens)
       /\ \A i \in 1..Len(Added) : RecordOfToken(Added[Len(Added) + 1 - i], TheTokens[i])

\* the last token of the list has no member
LastTokenWithoutMember == TokenSplit(TheTokens[Len(TheTokens)]).member = <<>>

\* what the parser does with such lists: the tokens before the last one are
\* read as C13 says; a last token "owner." gives a record whose member is
\* exactly the empty name, a last token "owner::" gives no record
EmptyPartsButLast ==
  (LegacyRead /\ PartialTokens /\ OneStyle)
    => /\ Returned
       /\ StoreKept
       /\ \A i \in 1..(Len(TheTokens) - 1) :
            /\ i <= Len(Added)
            /\ RecordOfToken(Added[Len(Added) + 1 - i], TheTokens[i])
       /\ IF ~LastTokenWithoutMember
          THEN /\ Len(Added) = Len(TheTokens)
               /\ RecordOfToken(Added[1], TheTokens[Len(TheTokens)])
          ELSE IF HasColonColon(TheList \o <<NUL>>, 1)
          THEN Len(Added) = Len(TheTokens) - 1
          ELSE /\ Len(Added) = Len(TheTokens)
               /\ heap[Added[1]].pattern.method_mode = "Exact"
               /\ heap[Added[1]].pattern.method_name = <<>>
               /\ \A method \in Methods : ~matches(heap[Added[1]].pattern, method)

\* a list ending in "Foo." was read: its first two tokens gave wildcard
\* records, its last one a record that accepts no method
LastDotTokenMatchesNothing ==
  /\ LegacyRead
  /\ TheList = T_Foo_ \o <<",">> \o T__bar \o <<",">> \o T_Foo_
  /\ Len(Added) = 3
  /\ heap[Added[3]].pattern.method_mode = "Any"
  /\ heap[Added[2]].pattern.class_mode = "Any"
  /\ \A method \in Methods : ~matches(heap[Added[1]].pattern, method)

\* a list ending in "Foo::" was read: its last token gave no record
LastColonTokenDropped ==
  /\ LegacyRead
  /\ TheList = T_Foo__ \o <<",">> \o T___bar \o <<",">> \o T_Foo__
  /\ Len(Added) = 2

(***************************************************************************)
(* Assertions and value kinds                                              *)
(***************************************************************************)
\* a clause in the bare form naming a directive whose registered value kind
\* is not boolean
BareMismatch(c) ==
  /\ ~c.typed
  /\ c.name \in RegisteredNames
  /\ command2types[KindOf(c.name)] # "Bool"

\* clause k is such a clause, all clauses before it well formed
FirstBareMismatch(k) ==
  /\ k \in 1..Len(TheClauses)
  /\ BareMismatch(TheClauses[k])
  /\ \A i \in 1..(k - 1) : ClauseOK(TheClauses[i])

\* the record at address a holds a value of the kind registered for its
\* directive kind
ValueKindRegistered(a) ==
  /\ heap[a].type = StoredType(command2types[heap[a].option])
  /\ heap[a].u.ty = heap[a].type

\* C14: no line makes the line parser hit an assertion or abort; an option
\* clause naming in bare form a directive whose registered value kind is not
\* boolean is reported as an error and adds no record; every record of the
\* store holds a value of the kind registered for its directive kind.
C14_NoAssertion ==
  /\ ParsedLine => status = "ok"
  /\ \A i \in 1..Len(Chain) : ValueKindRegistered(Chain[i])
  /\ \A k \in 1..Len(TheLine.fields) :
       (OptionLineRead /\ FirstBareMismatch(k))
         => /\ Returned
            /\ Len(last_op.reports) = 1
            /\ StoreKept
            /\ Len(Added) = k - 1

\* what the parser does with such a clause: with assertions compiled in it
\* stops at the sanity assertion of the insertion, without them it inserts a
\* record of the directive's kind and registered type holding the boolean
\* true, and reports nothing
BareMismatchOutcome ==
  \A k \in 1..Len(TheLine.fields) :
    (OptionLineRead /\ FirstBareMismatch(k))
      => /\ last_op.reports = <<>>
         /\ StoreKept
         /\ IF debug_build
            THEN status = "assert" /\ Len(Added) = k - 1
            ELSE /\ Len(Added) >= k
                 /\ heap[Added[Len(Added) + 1 - k]].option = KindOf(TheClauses[k].name)
                 /\ heap[Added[Len(Added) + 1 - k]].type
                      = StoredType(command2types[KindOf(TheClauses[k].name)])
                 /\ heap[Added[Len(Added) + 1 - k]].u = BoolValue(TRUE)

\* the sanity assertion fired on a bare clause
AssertedOnBareClause ==
  /\ OptionLineRead
  /\ FirstBareMismatch(1)
  /\ debug_build
  /\ status = "assert"

\* the store holds a record of an integer directive whose value was written
\* as a boolean
MismatchedRecordStored ==
  /\ OptionLineRead
  /\ FirstBareMismatch(1)
  /\ status = "ok"
  /\ heap[option_list].option = "MaxNodeLimit"
  /\ heap[option_list].type = "Intx"
  /\ heap[option_list].u.ty = "Bool"

\* the only records that do not hold a value of their registered kind are
\* those of bare clauses
OnlyBareClausesMismatch ==
  \A i \in 1..Len(Chain) :
    \/ ValueKindRegistered(Chain[i])
    \/ /\ heap[Chain[i]].type = StoredType(command2types[heap[Chain[i]].option])
       /\ heap[Chain[i]].u = BoolValue(TRUE)
       /\ ~debug_build

(***************************************************************************)
(* Loading a text of several lines                                         *)
(***************************************************************************)
\* a string or a command file that could be opened was loaded
Loaded ==
  /\ last_op.op \in {"parse_from_string", "parse_from_file"}
  /\ last_op.input.head # NullSym

TheText == last_op.input.head

\* the newline-separated lines of a text
RECURSIVE SplitNewlines(_)
SplitNewlines(text) ==
  LET newlines == {i \in 1..Len(text) : text[i] = "\n"}
      k == CHOOSE i \in newlines : \A j \in newlines : i <= j
  IN  IF newlines = {} THEN <<text>>
      ELSE <<SubSeq(text, 1, k - 1)>> \o SplitNewlines(SubSeq(text, k + 1, Len(text)))

TheTextLines == SplitNewlines(TheText)

\* C15: parse_from_string and parse_from_file hand every newline-separated
\* line of their input to the line parser once and in input order, whatever
\* the earlier lines are; a malformed line or one that reaches the length of
\* the line buffer affects only itself.
C15_EveryLineHanded ==
  Loaded => last_op.handed = TheTextLines

\* the lines that reach the length of the line buffer
LongLines == {i \in 1..Len(TheTextLines) : Len(TheTextLines[i]) >= token_size - 1}

\* what the loaders hand over when every call of the line parser returns:
\* the lines in order up to the first one that reaches the length of the
\* buffer, that one cut to the buffer, and none of the lines after it
LinesUpToLongLine ==
  (Loaded /\ Returned)
    => IF LongLines = {} THEN last_op.handed = TheTextLines
       ELSE LET k == CHOOSE i \in LongLines : \A j \in LongLines : i <= j
            IN  last_op.handed
                  = SubSeq(TheTextLines, 1, k - 1)
                      \o <<SubSeq(TheTextLines[k], 1, token_size - 1)>>

\* a line that the line parser rejects with a message does not keep the
\* lines after it from being parsed
RejectedLineOnlyItself ==
  /\ Loaded
  /\ TheTextLines = <<T_excludes \o <<",">> \o T_Foo_bar, Name("Exclude") \o <<",">> \o T_Foo_bar>>
  /\ last_op.handed = TheTextLines
  /\ last_op.reports = <<Unrecognized>>
  /\ Len(Added) = 1

\* the line after a line that fills the buffer was never parsed
LineAfterLongLineLost ==
  /\ Loaded
  /\ TheTextLines = <<T_long_comment, Name("Exclude") \o <<",">> \o T_Foo_bar>>
  /\ Returned
  /\ last_op.handed = <<SubSeq(T_long_comment, 1, token_size - 1)>>
  /\ Added = <<>>

(***************************************************************************)
(* The store only grows at its head                                        *)
(***************************************************************************)
\* no address occurs twice in a sequence of addresses
NoRepeat(addrs) == \A i, j \in 1..Len(addrs) : addrs[i] = addrs[j] => i = j

\* the walk from option_list ends at NULL
ChainEnds == Chain = <<>> \/ heap[Chain[Len(Chain)]].next = NULL

\* a line that is empty, a comment, quiet or help
SilentLine ==
  /\ ParsedLine
  /\ TheLine \in {Line(<<>>, ",", <<>>), Line(T_comment, ",", <<>>),
                 Line(Name("Quiet"), ",", <<>>), Line(Name("Help"), ",", <<>>)}

\* C16: after every parsing operation the chain is zero or more newly
\* created records followed by the chain as it was before the operation,
\* every earlier record unchanged; no record is removed or inserted twice,
\* the chain is finite and acyclic; quiet, help, comment and empty lines
\* leave the store untouched.
C16_AppendOnly ==
  /\ StoreKept
  /\ \A i \in 1..Len(Added) : Added[i] > Len(last_op.pre.heap)
  /\ \A a \in 1..Len(last_op.pre.heap) : heap[a] = last_op.pre.heap[a]
  /\ NoRepeat(Chain)
  /\ NoRepeat(inserted)
  /\ ChainEnds
  /\ Len(Chain) = Len(inserted)
  /\ SilentLine => (Added = <<>> /\ heap = last_op.pre.heap)

\* a command file put two records in front of a store that held records
\* already
C16_Witness ==
  /\ last_op.op = "parse_from_file"
  /\ Len(PreChain) >= 2
  /\ Len(Added) = 2
  /\ Returned

\* a quiet line was read into a store that held records
SilentLineOnStore ==
  /\ SilentLine
  /\ TheLine.head = Name("Quiet")
  /\ PreChain # <<>>

(***************************************************************************)
(* The legacy list parser returns                                          *)
(***************************************************************************)
\* C17: the legacy list parser returns normally for every input and never
\* reaches its ShouldNotReachHere; empty tokens, stray separators and white
\* space are skipped or turned into wildcard records.
C17_LegacyReturns ==
  LegacyRead => Returned

\* a token other than the last one is empty, or a token begins with white
\* space
StrayToken(i) ==
  \/ TheTokens[i] = <<>> /\ i < Len(TheTokens)
  \/ TheTokens[i] # <<>> /\ IsSpace(TheTokens[i][1])

\* what the parser does: it reaches ShouldNotReachHere exactly when the list
\* has such a token, keeping the records of the tokens before the first one
LegacyAbortsOnStrayToken ==
  LegacyRead
    => /\ status \in {"ok", "unreachable"}
       /\ status = "unreachable" <=> \E i \in 1..Len(TheTokens) : StrayToken(i)
       /\ \A i \in 1..Len(TheTokens) :
            (StrayToken(i) /\ \A j \in 1..(i - 1) : ~StrayToken(j))
              => /\ StoreKept
                 /\ Len(Added) = i - 1

\* the parser aborted on a leading comma
AbortOnLeadingComma ==
  /\ LegacyRead
  /\ TheList = <<",">> \o T_Foo_bar
  /\ status = "unreachable"
  /\ Added = <<>>

\* the parser aborted on the second of two commas, after the record of the
\* first token
AbortOnSecondComma ==
  /\ LegacyRead
  /\ TheList = T_Foo_bar \o <<",", ",">> \o T_Foo_baz
  /\ status = "unreachable"
  /\ Len(Added) = 1

\* the parser aborted on a blank after a comma
AbortOnBlank ==
  /\ LegacyRead
  /\ TheList = T_Foo_bar \o <<",", " ">> \o T_Foo_baz
  /\ status = "unreachable"
  /\ Len(Added) = 1

(***************************************************************************)
(* The cursor and the end of the line                                      *)
(***************************************************************************)
\* C18: for every input line the cursor of the scanner stays within the
\* line: no step of parse_from_line, scan_flag_and_value or scan_value moves
\* it past the terminating NUL and reads from there, also when the line ends
\* right after the command name or right after the option name of a typed
\* clause.
C18_CursorInLine ==
  ~last_op.overrun

\* the line ends where the parser skips a separator without looking at it:
\* after the name of the option command or of a Standard command, or after
\* the option name of a typed clause whose type is the registered one
EndsAtSkippedSeparator ==
  \/ /\ TheLine.fields = <<>>
     /\ TheLine.head \in RegisteredNames
     /\ \/ TheLine.head = Name("Option")
        \/ command2variant[KindOf(TheLine.head)] = "Standard"
  \/ /\ OptionLineRead
     /\ \E k \in 1..Len(TheClauses) :
          /\ \A i \in 1..(k - 1) : ClauseOK(TheClauses[i])
          /\ TheClauses[k].typed
          /\ TheClauses[k].name \in RegisteredNames
          /\ command2types[KindOf(TheClauses[k].name)] = TypeOf(TheClauses[k].type)
          /\ TheClauses[k].val = <<>>

\* the cursor leaves the line exactly on such lines
OverrunAtSkippedSeparator ==
  ParsedLine => (last_op.overrun <=> EndsAtSkippedSeparator)

\* a bare "option" line was read and a record was made from the bytes that
\* followed the line in memory
RecordFromBytesAfterLine ==
  /\ ParsedLine
  /\ TheLine = Line(Name("Option"), ",", <<>>)
  /\ last_op.overrun
  /\ last_op.residue # <<>>
  /\ Len(Added) = 1
  /\ heap[Added[1]].option = "Vectorize"

\* a Standard command with nothing after it moved the cursor past the NUL
OverrunAfterStandardName ==
  /\ ParsedLine
  /\ TheLine = Line(Name("MaxNodeLimit"), ",", <<>>)
  /\ last_op.overrun

\* a typed clause that ends after its option name moved the cursor past
\* the NUL
OverrunAfterOptionName ==
  /\ OptionLineRead
  /\ Len(TheClauses) = 1
  /\ TheClauses[1].typed
  /\ TheClauses[1].val = <<>>
  /\ last_op.overrun

=============================================================================
